---------------------------- MODULE Spec2Model ----------------------------
(***************************************************************************)
(* A model of the confi crate: validated confidence / significance levels, *)
(* confidence intervals and Bartlett's test for equal variances.           *)
(*                                                                         *)
(* The crate is generic over an IEEE-754 float type T.  The model keeps    *)
(* the IEEE-754 arithmetic (round-to-nearest-even, NaN, infinities,        *)
(* gradual underflow, overflow to infinity) and shrinks only the format:   *)
(* Precision significand bits, a smallest subnormal of 2^-FracBits and     *)
(* finite values below 2^MaxExp.  A finite float is held as the integer    *)
(* number of quanta (one quantum = 2^-FracBits) it is worth.  The sign of  *)
(* zero is not modelled: -0.0 and 0.0 compare equal in every comparison    *)
(* the crate makes.                                                        *)
(***************************************************************************)
EXTENDS Integers, Sequences, FiniteSets, TLC

\* ------------------------------------------------------------------------
\* The float format
\* ------------------------------------------------------------------------

\* Number of significand bits (24 for f32, 53 for f64).
Precision == 5

\* The smallest positive float is 2^-FracBits.
FracBits == 8

\* Every finite float is below 2^MaxExp.
MaxExp == 8

Quantum == 2 ^ FracBits

MantLimit == 2 ^ Precision

MaxShift == FracBits + MaxExp - Precision

MaxFinite == (MantLimit - 1) * 2 ^ MaxShift

Fin(n) == [k |-> "fin", n |-> n]

NaN == [k |-> "nan", n |-> 0]

PInf == [k |-> "inf", n |-> 1]

NInf == [k |-> "inf", n |-> -1]

IsNaN(x) == x.k = "nan"

IsFinite(x) == x.k = "fin"

Abs(i) == IF i < 0 THEN -i ELSE i

Sign(i) == IF i < 0 THEN -1 ELSE IF i > 0 THEN 1 ELSE 0

\* The non-negative finite floats, in quanta: the subnormals and the first
\* binade have spacing 1, each further binade doubles it.
FiniteNonNeg ==
    (0 .. MantLimit - 1) \cup
    { m * 2 ^ s : m \in (MantLimit \div 2) .. (MantLimit - 1), s \in 1 .. MaxShift }

Floats ==
    { Fin(n) : n \in FiniteNonNeg } \cup { Fin(-n) : n \in FiniteNonNeg } \cup
    { NaN, PInf, NInf }

RECURSIVE ShiftOf(_)
\* How many low bits a magnitude of f quanta loses in the format.
ShiftOf(f) == IF f < MantLimit THEN 0 ELSE 1 + ShiftOf(f \div 2)

\* Round the non-negative rational a / b (in quanta) to the nearest float,
\* ties to the even significand; beyond MaxFinite the result is +infinity.
RoundPos(a, b) ==
    LET f == a \div b
        s == ShiftOf(f)
        u == 2 ^ s
        lo == (f \div u) * u
        hi == lo + u
        rem == (a - lo * b) * 2
        pick == IF rem < u * b THEN lo
                ELSE IF rem > u * b THEN hi
                ELSE IF (lo \div u) % 2 = 0 THEN lo ELSE hi
    IN  IF pick > MaxFinite THEN PInf ELSE Fin(pick)

FNeg(x) == IF x.k = "nan" THEN NaN ELSE [k |-> x.k, n |-> -x.n]

\* Round the rational a / b (b > 0) to a float.
RoundRat(a, b) == IF a < 0 THEN FNeg(RoundPos(-a, b)) ELSE RoundPos(a, b)

\* T::from_usize / T::from_f64 of a whole number.
FromInt(i) == RoundRat(i * Quantum, 1)

Zero == Fin(0)

One == Fin(Quantum)

FAdd(x, y) ==
    IF IsNaN(x) \/ IsNaN(y) THEN NaN
    ELSE IF x.k = "inf" /\ y.k = "inf" THEN (IF x.n = y.n THEN x ELSE NaN)
    ELSE IF x.k = "inf" THEN x
    ELSE IF y.k = "inf" THEN y
    ELSE RoundRat(x.n + y.n, 1)

FSub(x, y) == FAdd(x, FNeg(y))

FMul(x, y) ==
    IF IsNaN(x) \/ IsNaN(y) THEN NaN
    ELSE IF x.k = "inf" \/ y.k = "inf"
         THEN (IF x.n = 0 \/ y.n = 0 THEN NaN
               ELSE IF Sign(x.n) = Sign(y.n) THEN PInf ELSE NInf)
    ELSE IF y.n # 0 /\ Abs(x.n) > 2147483647 \div Abs(y.n)
         THEN (IF Sign(x.n) = Sign(y.n) THEN PInf ELSE NInf)
    ELSE RoundRat(x.n * y.n, Quantum)

FDiv(x, y) ==
    IF IsNaN(x) \/ IsNaN(y) THEN NaN
    ELSE IF x.k = "inf"
         THEN (IF y.k = "inf" THEN NaN
               ELSE IF (y.n < 0) = (x.n < 0) THEN PInf ELSE NInf)
    ELSE IF y.k = "inf" THEN Zero
    ELSE IF y.n = 0
         THEN (IF x.n = 0 THEN NaN ELSE IF x.n > 0 THEN PInf ELSE NInf)
    ELSE IF y.n < 0 THEN RoundRat(-(x.n * Quantum), -y.n)
    ELSE RoundRat(x.n * Quantum, y.n)

\* a.mul_add(b, c): a * b + c with a single rounding.
FMulAdd(a, b, c) ==
    IF IsFinite(a) /\ IsFinite(b) /\ IsFinite(c)
    THEN RoundRat(a.n * b.n + c.n * Quantum, Quantum)
    ELSE FAdd(FMul(a, b), c)

\* The ordered comparisons: each is false as soon as one side is NaN.
FLt(x, y) ==
    /\ ~IsNaN(x)
    /\ ~IsNaN(y)
    /\ IF x.k = "inf" THEN x.n < 0 /\ y # x
       ELSE IF y.k = "inf" THEN y.n > 0
       ELSE x.n < y.n

FGt(x, y) == FLt(y, x)

FEq(x, y) == ~IsNaN(x) /\ ~IsNaN(y) /\ x = y

FLe(x, y) == FLt(x, y) \/ FEq(x, y)

FGe(x, y) == FLe(y, x)

\* ------------------------------------------------------------------------
\* Elementary functions of the float type
\* ------------------------------------------------------------------------

\* The fixed-point scale in which Ln accumulates its series.
LnScale == 2 ^ 15

\* ln 2 in units of 1 / LnScale.
Ln2Scaled == 22713

RECURSIVE FloorLog2(_)
FloorLog2(m) == IF m < 2 THEN 0 ELSE 1 + FloorLog2(m \div 2)

\* Float::ln.  ln(m * 2^e) = e * ln 2 + 2 * atanh((y - 1) / (y + 1)) with
\* y in [1, 2), summed in fixed point and rounded to the format.
Ln(x) ==
    IF IsNaN(x) THEN NaN
    ELSE IF x.n < 0 THEN NaN
    ELSE IF x.k = "inf" THEN PInf
    ELSE IF x.n = 0 THEN NInf
    ELSE LET s == ShiftOf(x.n)
             m == x.n \div 2 ^ s
             e == FloorLog2(m)
             p == 2 ^ e
             z == ((m - p) * LnScale) \div (m + p)
             zz == (z * z) \div LnScale
             t3 == (z * zz) \div LnScale
             t5 == (t3 * zz) \div LnScale
             t7 == (t5 * zz) \div LnScale
             t9 == (t7 * zz) \div LnScale
             t11 == (t9 * zz) \div LnScale
             series == 2 * (z + t3 \div 3 + t5 \div 5 + t7 \div 7 + t9 \div 9
                             + t11 \div 11)
             total == (e + s - FracBits) * Ln2Scaled + series
         IN  RoundRat(total * Quantum, LnScale)

RECURSIVE ISqrtFrom(_, _, _)
\* The largest r with r * r <= x, settled bit by bit from the highest.
ISqrtFrom(x, bit, acc) ==
    IF bit = 0 THEN acc
    ELSE IF (acc + bit) * (acc + bit) <= x
         THEN ISqrtFrom(x, bit \div 2, acc + bit)
         ELSE ISqrtFrom(x, bit \div 2, acc)

\* f64::sqrt, correctly rounded; the square root of a negative number is NaN.
Sqrt(x) ==
    IF IsNaN(x) THEN NaN
    ELSE IF x.n < 0 THEN NaN
    ELSE IF x.k = "inf" THEN PInf
    ELSE LET sq == x.n * Quantum
             r == ISqrtFrom(sq, 2 ^ 14, 0)
             s == ShiftOf(r)
             u == 2 ^ s
             lo == (r \div u) * u
             hi == lo + u
             mid2 == (lo + hi) * (lo + hi)
             pick == IF lo * lo = sq THEN lo
                     ELSE IF 4 * sq < mid2 THEN lo
                     ELSE IF 4 * sq > mid2 THEN hi
                     ELSE IF (lo \div u) % 2 = 0 THEN lo ELSE hi
         IN  Fin(pick)

\* ------------------------------------------------------------------------
\* Confidence and significance levels
\* ------------------------------------------------------------------------

\* T::from_f64 of the decimal literal num / den.
FromDecimal(num, den) == RoundRat(num * Quantum, den)

\* T::from_f64(100.0)
Hundred == FromDecimal(100, 1)

Ok(ty, v) == [tag |-> "Ok", ty |-> ty, val |-> v]

\* ConfidenceError::Value(level.to_f64())
Err(ty, v) == [tag |-> "Err", ty |-> ty, val |-> v]

NoResult == [tag |-> "none", ty |-> "none", val |-> Zero]

\* ConfidenceLevel::fractional
ConfidenceFractional(level) ==
    IF FLt(level, Zero) \/ FGt(level, One)
    THEN Err("confidence", level)
    ELSE Ok("confidence", level)

\* A faulty percentage: the division by 100 is forgotten.
ConfidencePercentageUnscaled(level) ==
    IF FLt(level, Zero) \/ FGt(level, One)
    THEN Err("confidence", level)
    ELSE Ok("confidence", level)

\* ConfidenceLevel::percentage
ConfidencePercentage(level) ==
    LET scaled == FDiv(level, Hundred)
    IN  IF FLt(scaled, Zero) \/ FGt(scaled, One)
        THEN Err("confidence", scaled)
        ELSE Ok("confidence", scaled)

\* SignificanceLevel::fractional
SignificanceFractional(level) ==
    IF FLt(level, Zero) \/ FGt(level, One)
    THEN Err("significance", level)
    ELSE Ok("significance", level)

\* SignificanceLevel::percentage
SignificancePercentage(level) ==
    LET scaled == FDiv(level, Hundred)
    IN  IF FLt(scaled, Zero) \/ FGt(scaled, One)
        THEN Err("significance", scaled)
        ELSE Ok("significance", scaled)

\* The named constructors of ConfidenceLevel, by name.
ConfidenceNamed ==
    [ninety_nine_point_nine_percent |-> FromDecimal(999, 1000),
     ninety_nine_point_five_percent |-> FromDecimal(995, 1000),
     ninety_nine_percent |-> FromDecimal(99, 100),
     ninety_seven_point_five_percent |-> FromDecimal(975, 1000),
     ninety_five_percent |-> FromDecimal(95, 100),
     ninety_percent |-> FromDecimal(9, 10)]

\* The named constructors of SignificanceLevel, by name.
SignificanceNamed ==
    [zero_point_one_percent |-> FromDecimal(1, 1000),
     zero_point_five_percent |-> FromDecimal(5, 1000),
     one_percent |-> FromDecimal(1, 100),
     two_point_five_percent |-> FromDecimal(25, 1000),
     five_percent |-> FromDecimal(5, 100),
     ten_percent |-> FromDecimal(1, 10)]

\* A faulty conversion: the probability is carried over, not complemented.
ConfidenceFromSignificanceSameValue(significance_level) ==
    [ty |-> "confidence", val |-> significance_level.val]

\* impl From<SignificanceLevel<T>> for ConfidenceLevel<T>
ConfidenceFromSignificance(significance_level) ==
    [ty |-> "confidence", val |-> FSub(One, significance_level.val)]

\* impl From<ConfidenceLevel<T>> for SignificanceLevel<T>
SignificanceFromConfidence(confidence_level) ==
    [ty |-> "significance", val |-> FSub(One, confidence_level.val)]

\* probability(): the wrapped fraction.
Probability(lvl) == lvl.val

NoLevel == [ty |-> "none", val |-> Zero]

\* ------------------------------------------------------------------------
\* Confidence intervals
\* ------------------------------------------------------------------------

\* A faulty constructor: the bounds are put in order.
NewIntervalOrdered(lo, hi, confidence_level) ==
    IF FGt(lo, hi)
    THEN [set |-> TRUE, start |-> hi, end |-> lo, confidence_level |-> confidence_level]
    ELSE [set |-> TRUE, start |-> lo, end |-> hi, confidence_level |-> confidence_level]

\* ConfidenceInterval::new(range, confidence_level)
NewInterval(lo, hi, confidence_level) ==
    [set |-> TRUE, start |-> lo, end |-> hi, confidence_level |-> confidence_level]

NoInterval ==
    [set |-> FALSE, start |-> Zero, end |-> Zero, confidence_level |-> Zero]

\* Confidence::start, Confidence::end, Confidence::confidence_level
Start(iv) == iv.start

End(iv) == iv.end

ConfidenceLevelOf(iv) == iv.confidence_level

\* Confidence::width
Width(iv) == FSub(End(iv), Start(iv))

\* Confidence::half_width
HalfWidth(iv) == FDiv(Width(iv), FromInt(2))

\* A faulty contains: the upper bound is excluded.
ContainsExclusiveEnd(iv, val) == FLt(val, iv.end) /\ FGe(val, iv.start)

\* Confidence::contains
Contains(iv, val) == FLe(val, End(iv)) /\ FGe(val, Start(iv))

FloatAnswer(f) == [kind |-> "float", f |-> f, b |-> FALSE]

BoolAnswer(b) == [kind |-> "bool", f |-> Zero, b |-> b]

NoAnswer == [kind |-> "none", f |-> Zero, b |-> FALSE]

NoQuery == [op |-> "none", arg |-> Zero]

NoGiven == [lo |-> Zero, hi |-> Zero, level |-> Zero]

\* ------------------------------------------------------------------------
\* Bartlett's test
\* ------------------------------------------------------------------------

RECURSIVE Welford(_, _)
\* The running mean and sum of squared deviations after the first i samples
\* (the one-pass loop of ndarray's var).
Welford(xs, i) ==
    IF i = 0 THEN [mean |-> Zero, sum_sq |-> Zero]
    ELSE LET prev == Welford(xs, i - 1)
             count == FromInt(i)
             delta == FSub(xs[i], prev.mean)
             mean == FAdd(prev.mean, FDiv(delta, count))
         IN  [mean |-> mean,
              sum_sq |-> FMulAdd(FSub(xs[i], mean), delta, prev.sum_sq)]

\* sample.var(ddof) asserts 0 <= ddof <= n and aborts otherwise.
VarPanics(xs, ddof) == FLt(ddof, Zero) \/ FGt(ddof, FromInt(Len(xs)))

\* sample.var(ddof): the sum of squared deviations over n - ddof.
Var(xs, ddof) ==
    FDiv(Welford(xs, Len(xs)).sum_sq, FSub(FromInt(Len(xs)), ddof))

RECURSIVE SumTo(_, _)
\* Array1::sum of the first i elements: a left fold from zero.
SumTo(xs, i) == IF i = 0 THEN Zero ELSE FAdd(SumTo(xs, i - 1), xs[i])

Sum(xs) == SumTo(xs, Len(xs))

\* A p-value is a known number or a value of the regularised upper
\* incomplete gamma function, which the model leaves unevaluated.
PConst(v) == [fn |-> "const", a |-> Zero, x |-> v]

GammaUR(a, x) ==
    IF IsNaN(a) \/ IsNaN(x) THEN PConst(NaN) ELSE [fn |-> "gamma_ur", a |-> a, x |-> x]

\* statrs Chi::new: the degrees of freedom must be a positive number.
ChiNewFails(freedom) == IsNaN(freedom) \/ FLe(freedom, Zero)

\* statrs Chi::sf, the survival function of the chi (not chi-squared)
\* distribution: gamma_ur(freedom / 2, x^2 / 2).
ChiSf(freedom, x) ==
    IF freedom = PInf \/ x = PInf THEN PConst(Zero)
    ELSE IF FLe(x, Zero) THEN PConst(One)
    ELSE GammaUR(FDiv(freedom, FromInt(2)), FDiv(FMul(x, x), FromInt(2)))

InputError(count) ==
    [tag |-> "Err", err |-> "Input", count |-> count,
     statistic |-> NaN, pvalue |-> PConst(NaN)]

StatsError ==
    [tag |-> "Err", err |-> "Stats", count |-> 0,
     statistic |-> NaN, pvalue |-> PConst(NaN)]

Panic ==
    [tag |-> "Panic", err |-> "", count |-> 0,
     statistic |-> NaN, pvalue |-> PConst(NaN)]

BartlettTestResult(statistic, pvalue) ==
    [tag |-> "Ok", err |-> "", count |-> 0,
     statistic |-> statistic, pvalue |-> pvalue]

\* A faulty statistic: the pooled variance weighs each group by its size
\* n[i] instead of n[i] - 1.
BartlettStatisticSizeWeights(inputs) ==
    LET one == One
        three == FAdd(FAdd(one, one), one)
        input_count == FromInt(Len(inputs))
        num_samples == [i \in 1 .. Len(inputs) |-> FromInt(Len(inputs[i]))]
        total_num_samples == Sum(num_samples)
        variances == [i \in 1 .. Len(inputs) |-> Var(inputs[i], one)]
        spsq == FDiv(Sum([i \in 1 .. Len(inputs) |->
                            FMul(num_samples[i], variances[i])]),
                     FSub(total_num_samples, input_count))
        numer == FSub(FMul(FSub(total_num_samples, input_count), Ln(spsq)),
                      Sum([i \in 1 .. Len(inputs) |->
                             FMul(FSub(num_samples[i], one), Ln(variances[i]))]))
        denom == FAdd(one,
                      FMul(FDiv(one, FMul(three, FSub(input_count, one))),
                           FSub(Sum([i \in 1 .. Len(inputs) |->
                                       FDiv(one, FSub(num_samples[i], one))]),
                                FDiv(one, FSub(total_num_samples, input_count)))))
    IN  FDiv(numer, denom)

\* The statistic of bartlett_test for at least two groups none of which is
\* empty, with the locals of the source.
BartlettStatistic(inputs) ==
    LET one == One
        three == FAdd(FAdd(one, one), one)
        input_count == FromInt(Len(inputs))
        num_samples == [i \in 1 .. Len(inputs) |-> FromInt(Len(inputs[i]))]
        total_num_samples == Sum(num_samples)
        variances == [i \in 1 .. Len(inputs) |-> Var(inputs[i], one)]
        spsq == FDiv(Sum([i \in 1 .. Len(inputs) |->
                            FMul(FSub(num_samples[i], one), variances[i])]),
                     FSub(total_num_samples, input_count))
        numer == FSub(FMul(FSub(total_num_samples, input_count), Ln(spsq)),
                      Sum([i \in 1 .. Len(inputs) |->
                             FMul(FSub(num_samples[i], one), Ln(variances[i]))]))
        denom == FAdd(one,
                      FMul(FDiv(one, FMul(three, FSub(input_count, one))),
                           FSub(Sum([i \in 1 .. Len(inputs) |->
                                       FDiv(one, FSub(num_samples[i], one))]),
                                FDiv(one, FSub(total_num_samples, input_count)))))
    IN  FDiv(numer, denom)

\* The p-value bartlett_test derives from its statistic.
BartlettPValue(freedom, statistic) == ChiSf(freedom, Sqrt(statistic))

\* A faulty bartlett_test: only an empty slice is refused.
BartlettTestAcceptsOneGroup(inputs) ==
    IF Len(inputs) < 1 THEN InputError(Len(inputs))
    ELSE IF \E i \in 1 .. Len(inputs) : VarPanics(inputs[i], One) THEN Panic
    ELSE LET statistic == BartlettStatistic(inputs)
             freedom == FSub(FromInt(Len(inputs)), One)
         IN  IF ChiNewFails(freedom) THEN StatsError
             ELSE BartlettTestResult(statistic, BartlettPValue(freedom, statistic))

\* bartlett_test(inputs).
BartlettTest(inputs) ==
    IF Len(inputs) < 2 THEN InputError(Len(inputs))
    ELSE IF \E i \in 1 .. Len(inputs) : VarPanics(inputs[i], One) THEN Panic
    ELSE LET statistic == BartlettStatistic(inputs)
             freedom == FSub(FromInt(Len(inputs)), One)
         IN  IF ChiNewFails(freedom) THEN StatsError
             ELSE BartlettTestResult(statistic, BartlettPValue(freedom, statistic))

NoOutcome ==
    [tag |-> "none", err |-> "", count |-> 0,
     statistic |-> NaN, pvalue |-> PConst(NaN)]

\* ------------------------------------------------------------------------
\* The state and the operations
\* ------------------------------------------------------------------------

\* How many From conversions a level goes through.
MaxHops == 2

\* The interval bounds and queried values span [-MaxSample, MaxSample].
MaxSample == 2

\* How many groups a caller hands to bartlett_test, and how large each is.
MaxGroups == 3

MaxGroupSize == 3

VARIABLES
    call,       \* the constructor that made the level: [op, arg]
    result,     \* what that constructor returned
    level,      \* the level value held now, if any
    hops,       \* conversions applied to it since
    interval,   \* the ConfidenceInterval held, if any
    given,      \* the arguments it was built from
    query,      \* the last query made of it: [op, arg]
    answer,     \* and what the query returned
    inputs,     \* the groups handed to bartlett_test
    outcome     \* what bartlett_test returned

levelVars == <<call, result, level, hops>>

intervalVars == <<interval, given, query, answer>>

bartlettVars == <<inputs, outcome>>

vars == <<call, result, level, hops, interval, given, query, answer, inputs, outcome>>

NoCall == [op |-> "none", arg |-> Zero]

Init ==
    /\ call = NoCall
    /\ result = NoResult
    /\ level = NoLevel
    /\ hops = 0
    /\ interval = NoInterval
    /\ given = NoGiven
    /\ query = NoQuery
    /\ answer = NoAnswer
    /\ inputs = << >>
    /\ outcome = NoOutcome

\* --- levels --------------------------------------------------------------

\* A constructor is called with arg and returns res; an Ok carries the new
\* level, an Err carries none.
Construct(op, arg, res) ==
    /\ call.op = "none"
    /\ call' = [op |-> op, arg |-> arg]
    /\ result' = res
    /\ level' = IF res.tag = "Ok" THEN [ty |-> res.ty, val |-> res.val] ELSE NoLevel
    /\ hops' = 0
    /\ UNCHANGED <<intervalVars, bartlettVars>>

CallConfidenceFractional ==
    \E x \in Floats :
        Construct("ConfidenceLevel::fractional", x, ConfidenceFractional(x))

CallConfidencePercentage ==
    \E x \in Floats :
        Construct("ConfidenceLevel::percentage", x, ConfidencePercentage(x))

CallSignificanceFractional ==
    \E x \in Floats :
        Construct("SignificanceLevel::fractional", x, SignificanceFractional(x))

CallSignificancePercentage ==
    \E x \in Floats :
        Construct("SignificanceLevel::percentage", x, SignificancePercentage(x))

CallConfidenceNamed ==
    \E c \in DOMAIN ConfidenceNamed :
        Construct(c, Zero, Ok("confidence", ConfidenceNamed[c]))

CallSignificanceNamed ==
    \E c \in DOMAIN SignificanceNamed :
        Construct(c, Zero, Ok("significance", SignificanceNamed[c]))

IntoSignificance ==
    /\ level.ty = "confidence"
    /\ hops < MaxHops
    /\ level' = SignificanceFromConfidence(level)
    /\ hops' = hops + 1
    /\ UNCHANGED <<call, result, intervalVars, bartlettVars>>

IntoConfidence ==
    /\ level.ty = "significance"
    /\ hops < MaxHops
    /\ level' = ConfidenceFromSignificance(level)
    /\ hops' = hops + 1
    /\ UNCHANGED <<call, result, intervalVars, bartlettVars>>

NextLevel ==
    \/ CallConfidenceFractional
    \/ CallConfidencePercentage
    \/ CallSignificanceFractional
    \/ CallSignificancePercentage
    \/ CallConfidenceNamed
    \/ CallSignificanceNamed
    \/ IntoSignificance
    \/ IntoConfidence

SpecLevel == Init /\ [][NextLevel]_vars

\* --- intervals -----------------------------------------------------------

\* Bounds and query points: the halves of [-MaxSample, MaxSample], the
\* smallest and the largest finite floats, the infinities and NaN.
SampleFloats ==
    { RoundRat(i * Quantum, 2) : i \in (-2 * MaxSample) .. (2 * MaxSample) } \cup
    { Fin(1), Fin(MaxFinite), Fin(-MaxFinite), NaN, PInf, NInf }

SampleLevels == { ConfidenceNamed[c] : c \in DOMAIN ConfidenceNamed }

CallNew ==
    \E lo \in SampleFloats, hi \in SampleFloats, lvl \in SampleLevels :
        /\ ~interval.set
        /\ interval' = NewInterval(lo, hi, lvl)
        /\ given' = [lo |-> lo, hi |-> hi, level |-> lvl]
        /\ UNCHANGED <<query, answer, levelVars, bartlettVars>>

\* A query reads the interval through a shared reference.
Ask(op, arg, ans) ==
    /\ interval.set
    /\ query' = [op |-> op, arg |-> arg]
    /\ answer' = ans
    /\ UNCHANGED <<interval, given, levelVars, bartlettVars>>

CallStart == Ask("start", Zero, FloatAnswer(Start(interval)))

CallEnd == Ask("end", Zero, FloatAnswer(End(interval)))

CallConfidenceLevel ==
    Ask("confidence_level", Zero, FloatAnswer(ConfidenceLevelOf(interval)))

CallWidth == Ask("width", Zero, FloatAnswer(Width(interval)))

CallHalfWidth == Ask("half_width", Zero, FloatAnswer(HalfWidth(interval)))

CallContains ==
    \E v \in SampleFloats : Ask("contains", v, BoolAnswer(Contains(interval, v)))

NextInterval ==
    \/ CallNew
    \/ CallStart
    \/ CallEnd
    \/ CallConfidenceLevel
    \/ CallWidth
    \/ CallHalfWidth
    \/ CallContains

SpecInterval == Init /\ [][NextInterval]_vars

\* --- Bartlett's test -----------------------------------------------------

SampleSteps == { Zero, FromDecimal(3, 4), One }

\* The group 0, d, 2d, ... of n samples.
Progression(n, d) == [i \in 1 .. n |-> FMul(FromInt(i - 1), d)]

SampleGroups == { Progression(n, d) : n \in 0 .. MaxGroupSize, d \in SampleSteps }

\* The caller assembles the slice of groups.
PushGroup ==
    \E g \in SampleGroups :
        /\ outcome.tag = "none"
        /\ Len(inputs) < MaxGroups
        /\ inputs' = Append(inputs, g)
        /\ UNCHANGED <<outcome, levelVars, intervalVars>>

CallBartlettTest ==
    /\ outcome.tag = "none"
    /\ outcome' = BartlettTest(inputs)
    /\ UNCHANGED <<inputs, levelVars, intervalVars>>

NextBartlett == PushGroup \/ CallBartlettTest

SpecBartlett == Init /\ [][NextBartlett]_vars

\* ------------------------------------------------------------------------
\* Properties
\* ------------------------------------------------------------------------

\* x is a probability: a number of [0, 1], hence not NaN.
InUnitInterval(x) == IsFinite(x) /\ 0 <= x.n /\ x.n <= Quantum

FractionalOps == { "ConfidenceLevel::fractional", "SignificanceLevel::fractional" }

PercentageOps == { "ConfidenceLevel::percentage", "SignificanceLevel::percentage" }

TypeOf(op) ==
    IF op \in { "ConfidenceLevel::fractional", "ConfidenceLevel::percentage" }
    THEN "confidence" ELSE "significance"

FractionalOf(ty, x) ==
    IF ty = "confidence" THEN ConfidenceFractional(x) ELSE SignificanceFractional(x)

PercentageOf(ty, x) ==
    IF ty = "confidence" THEN ConfidencePercentage(x) ELSE SignificancePercentage(x)

\* The spacing of the floats around a magnitude of n quanta.
Ulp(n) == 2 ^ ShiftOf(Abs(n))

\* C1: fractional(x), of either level type, fails exactly when x < 0, x > 1
\* or x is NaN, and otherwise returns a level whose probability() is x.
C1_FractionalRejectsInvalid ==
    (call.op \in FractionalOps /\ hops = 0) =>
        IF IsNaN(call.arg) \/ ~InUnitInterval(call.arg)
        THEN result.tag = "Err" /\ level = NoLevel
        ELSE result.tag = "Ok" /\ Probability(level) = call.arg

\* C2: every level value that exists wraps a number of [0, 1] that is not
\* NaN, and a constructor given an invalid probability returns an error.
C2_LevelAlwaysInUnitInterval ==
    /\ level.ty # "none" => InUnitInterval(Probability(level))
    /\ (call.op \in FractionalOps /\ ~InUnitInterval(call.arg)) => result.tag = "Err"
    /\ (call.op \in PercentageOps /\ ~InUnitInterval(FDiv(call.arg, Hundred)))
           => result.tag = "Err"

\* The level was built from a valid probability p = result.val.
BuiltValid == result.tag = "Ok" /\ InUnitInterval(result.val)

\* C3 as stated: one conversion gives the float 1 - p, two give p again.
C3_RoundTripExact ==
    BuiltValid =>
        /\ hops = 1 => Probability(level) = FSub(One, result.val)
        /\ hops = 2 => level.ty = result.ty /\ Probability(level) = result.val

\* C3 as amended: one conversion gives 1 - p rounded to the nearest float,
\* at most 2^-(Precision+1) away from it; the conversion back gives a level
\* of the first type at most 2^-(Precision+1) away from p, and exactly p
\* when p >= 1/2; each further pair of conversions changes nothing.
C3_RoundTripWithinRounding ==
    BuiltValid =>
        /\ hops % 2 = 1 =>
              /\ level.ty # result.ty
              /\ InUnitInterval(level.val)
              /\ Abs(level.val.n + result.val.n - Quantum) * 2 * MantLimit <= Quantum
        /\ (hops > 0 /\ hops % 2 = 0) =>
              /\ level.ty = result.ty
              /\ InUnitInterval(level.val)
              /\ Abs(level.val.n - result.val.n) * 2 * MantLimit <= Quantum
              /\ 2 * result.val.n >= Quantum => Probability(level) = result.val

\* A round trip that loses the probability it started from.
C3_Witness ==
    BuiltValid /\ hops = 2 /\ level.ty = result.ty /\ Probability(level) # result.val

\* percentage(x) has the outcome of fractional(x / 100).
PercentageIsFractionalOfQuotient ==
    call.op \in PercentageOps =>
        result = FractionalOf(TypeOf(call.op), FDiv(call.arg, Hundred))

\* C4 as stated: percentage(x) has the outcome of fractional(x / 100), and
\* for x in [0, 1] fractional(x) equals percentage(100 * x).
C4_PercentageEqualsFractional ==
    /\ PercentageIsFractionalOfQuotient
    /\ (call.op \in FractionalOps /\ InUnitInterval(call.arg)) =>
           result = PercentageOf(TypeOf(call.op), FMul(Hundred, call.arg))

\* C4 as amended: percentage(x) has the outcome of fractional(x / 100), and
\* for x in [0, 1] percentage(100 * x) succeeds with a probability at most
\* one unit in the last place of x away from that of fractional(x).
C4_PercentageWithinOneUlp ==
    /\ PercentageIsFractionalOfQuotient
    /\ (call.op \in FractionalOps /\ InUnitInterval(call.arg)) =>
           LET other == PercentageOf(TypeOf(call.op), FMul(Hundred, call.arg))
           IN  /\ result.tag = "Ok"
               /\ other.tag = "Ok"
               /\ other.ty = result.ty
               /\ InUnitInterval(other.val)
               /\ Abs(other.val.n - result.val.n) <= Ulp(result.val.n)

\* A percentage that was divided by 100 into a level strictly inside (0, 1)
\* which, multiplied by 100 again, is not the percentage it came from.
C4_Witness ==
    /\ call.op \in PercentageOps
    /\ result.tag = "Ok"
    /\ 0 < result.val.n
    /\ result.val.n < Quantum
    /\ FMul(Hundred, result.val) # call.arg

\* a <= b as numbers; nothing is ordered against NaN.
RealLe(a, b) ==
    /\ ~IsNaN(a)
    /\ ~IsNaN(b)
    /\ \/ a = b
       \/ a = NInf
       \/ b = PInf
       \/ IsFinite(a) /\ IsFinite(b) /\ a.n <= b.n

\* C8: contains(v) is true exactly when lo <= v <= hi, both bounds
\* included, so it is false for every v when lo > hi.
C8_ContainsIffWithinBounds ==
    query.op = "contains" =>
        /\ answer.b = (RealLe(given.lo, query.arg) /\ RealLe(query.arg, given.hi))
        /\ (RealLe(given.lo, given.hi) /\ query.arg \in { given.lo, given.hi })
               => answer.b
        /\ ~RealLe(given.lo, given.hi) => ~answer.b

\* contains(hi) answered true on a proper interval.
C8_Witness ==
    /\ query.op = "contains"
    /\ query.arg = given.hi
    /\ given.lo # given.hi
    /\ RealLe(given.lo, given.hi)
    /\ answer.b

\* C9: new stores the range and the level as given, also when lo > hi, and
\* every query afterwards answers from them: start() = lo, end() = hi,
\* confidence_level() = level, width() = hi - lo, half_width() = width() / 2.
C9_NewStoresAsGiven ==
    interval.set =>
        /\ Start(interval) = given.lo
        /\ End(interval) = given.hi
        /\ ConfidenceLevelOf(interval) = given.level
        /\ query.op = "start" => answer.f = given.lo
        /\ query.op = "end" => answer.f = given.hi
        /\ query.op = "confidence_level" => answer.f = given.level
        /\ query.op = "width" => answer.f = FSub(given.hi, given.lo)
        /\ query.op = "half_width" =>
               answer.f = FDiv(FSub(given.hi, given.lo), FromInt(2))

\* The width of an interval built with lo > hi: a negative number.
C9_Witness ==
    /\ interval.set
    /\ query.op = "width"
    /\ IsFinite(given.lo)
    /\ IsFinite(given.hi)
    /\ given.lo.n > given.hi.n
    /\ IsFinite(answer.f)
    /\ answer.f.n < 0

Sizes(groups) == [i \in 1 .. Len(groups) |-> Len(groups[i])]

\* C5: with fewer than two groups bartlett_test fails with Input(k), k the
\* number of groups supplied; with two or more it never does.
C5_TooFewGroupsIsInputError ==
    outcome.tag # "none" =>
        IF Len(inputs) < 2
        THEN outcome.tag = "Err" /\ outcome.err = "Input" /\ outcome.count = Len(inputs)
        ELSE ~(outcome.tag = "Err" /\ outcome.err = "Input")

\* One well-formed group alone is refused with Input(1).
C5_Witness ==
    /\ Len(inputs) = 1
    /\ Len(inputs[1]) >= 2
    /\ outcome.tag = "Err"
    /\ outcome.err = "Input"
    /\ outcome.count = 1

PNonFinite(p) == p.fn = "const" /\ ~IsFinite(p.x)

\* C6: bartlett_test returns a result or a tagged error for every input and
\* never aborts; with two or more groups, one of them of size 1, it returns
\* a result whose statistic and p-value are not finite.
C6_NeverAborts ==
    outcome.tag # "none" =>
        /\ outcome.tag \in { "Ok", "Err" }
        /\ (Len(inputs) >= 2 /\ \E i \in 1 .. Len(inputs) : Len(inputs[i]) = 1) =>
               /\ outcome.tag = "Ok"
               /\ ~IsFinite(outcome.statistic)
               /\ PNonFinite(outcome.pvalue)

\* The survival function of the chi-squared distribution with the given
\* degrees of freedom at t: 1 up to t = 0, gamma_ur(freedom / 2, t / 2)
\* beyond, 0 at infinity.
ChiSquaredSf(freedom, t) ==
    IF IsNaN(t) THEN PConst(NaN)
    ELSE IF RealLe(t, Zero) THEN PConst(One)
    ELSE IF t = PInf THEN PConst(Zero)
    ELSE GammaUR(FDiv(freedom, FromInt(2)), FDiv(t, FromInt(2)))

\* Two p-values agree: the same number, or the same gamma function at
\* arguments that differ by rounding only (a relative 2^(2-Precision), or
\* one quantum).
PAgree(p, q) ==
    /\ p.fn = q.fn
    /\ p.a = q.a
    /\ p.fn = "const" => p.x = q.x
    /\ p.fn = "gamma_ur" =>
           \/ Abs(p.x.n - q.x.n) <= 1
           \/ Abs(p.x.n - q.x.n) * MantLimit <= 4 * Abs(q.x.n)

\* C7: the p-value of a result is the chi-squared survival function with
\* k - 1 degrees of freedom at the statistic of the same result.
C7_PValueIsChiSquaredSf ==
    outcome.tag = "Ok" =>
        PAgree(outcome.pvalue,
               ChiSquaredSf(FromInt(Len(inputs) - 1), outcome.statistic))

\* Bartlett's statistic as the formula reads, from the group sizes n[i] and
\* the Bessel-corrected variances ssq[i]: weights n[i] - 1, pooled over N - k.
BartlettFormula(groups) ==
    LET k == Len(groups)
        n == [i \in 1 .. k |-> FromInt(Len(groups[i]))]
        ssq == [i \in 1 .. k |-> Var(groups[i], One)]
        w == [i \in 1 .. k |-> FSub(n[i], One)]
        dof == FSub(Sum(n), FromInt(k))
        sp == FDiv(Sum([i \in 1 .. k |-> FMul(w[i], ssq[i])]), dof)
        top == FSub(FMul(dof, Ln(sp)), Sum([i \in 1 .. k |-> FMul(w[i], Ln(ssq[i]))]))
        corr == FAdd(One,
                     FMul(FDiv(One, FMul(FromInt(3), FromInt(k - 1))),
                          FSub(Sum([i \in 1 .. k |-> FDiv(One, w[i])]),
                               FDiv(One, dof))))
    IN  FDiv(top, corr)

\* C10: for two or more groups of at least two samples each the statistic
\* returned is [(N-k) ln sp - sum (n[i]-1) ln ssq[i]] over
\* [1 + (sum 1/(n[i]-1) - 1/(N-k)) / (3 (k-1))].
C10_StatisticIsBartlettFormula ==
    (outcome.tag = "Ok" /\ \A i \in 1 .. Len(inputs) : Len(inputs[i]) >= 2) =>
        outcome.statistic = BartlettFormula(inputs)

\* Three groups of different sizes and variances with a finite statistic.
C10_Witness ==
    /\ outcome.tag = "Ok"
    /\ Len(inputs) = 3
    /\ Sizes(inputs) = <<2, 3, 3>>
    /\ inputs[2] # inputs[3]
    /\ IsFinite(outcome.statistic)
    /\ outcome.statistic.n > 0

=============================================================================
